---- MODULE Spec2Model ----
(***************************************************************************)
(* codetango::Barrier, the barrier protocol client of src/src/codetango.cpp *)
(* (declared in src/include/codetango.h), together with the UNIX stream     *)
(* socket it talks over and the coordinator at the other end.               *)
(*                                                                          *)
(* A text (std::string, a message on the wire) is a sequence of characters. *)
(* A character is a one-character string; the bytes that a TLA+ string      *)
(* cannot hold are written by their ASCII names ("NUL", "BS", ...).         *)
(***************************************************************************)
EXTENDS Integers, Sequences, FiniteSets, TLC

\* ------------------------------------------------------------------ bounds

\* member function calls (add_*, wait, teardown) made on one client in one run
MaxCalls == 3
\* bytes of a reply that the coordinator writes first, when it writes the reply
\* in two pieces
FirstPiece == 10

\* ------------------------------------------------------------- characters

Lower == <<"a","b","c","d","e","f","g","h","i","j","k","l","m",
           "n","o","p","q","r","s","t","u","v","w","x","y","z">>

Digits == <<"0","1","2","3","4","5","6","7","8","9">>

HexDigits == <<"0","1","2","3","4","5","6","7","8","9","a","b","c","d","e","f">>

\* the byte value of every character the model uses
AsciiTable ==
    { <<"NUL", 0>>, <<"SOH", 1>>, <<"BS", 8>>, <<"TAB", 9>>, <<"LF", 10>>,
      <<"FF", 12>>, <<"CR", 13>>, <<"US", 31>>, <<" ", 32>>, <<"\"", 34>>,
      <<",", 44>>, <<"-", 45>>, <<".", 46>>, <<":", 58>>, <<"[", 91>>,
      <<"\\", 92>>, <<"]", 93>>, <<"_", 95>>, <<"{", 123>>, <<"}", 125>> }
    \cup { <<Digits[i], 47 + i>> : i \in 1..10 }
    \cup { <<Lower[i], 96 + i>> : i \in 1..26 }

Char == { p[1] : p \in AsciiTable }

Code(c) == (CHOOSE p \in AsciiTable : p[1] = c)[2]

Min(a, b) == IF a <= b THEN a ELSE b

\* std::string operator<, the order of the keys of std::map<std::string, ...>
RECURSIVE TextLess(_, _)
TextLess(a, b) ==
    IF b = <<>> THEN FALSE
    ELSE IF a = <<>> THEN TRUE
    ELSE IF Code(Head(a)) # Code(Head(b)) THEN Code(Head(a)) < Code(Head(b))
    ELSE TextLess(Tail(a), Tail(b))

\* operator<<(int): the decimal digits of a non-negative number
RECURSIVE NatText(_)
NatText(n) ==
    IF n < 10 THEN <<Digits[n + 1]>>
    ELSE NatText(n \div 10) \o <<Digits[(n % 10) + 1]>>

\* ss << value for an int
IntText(v) == IF v < 0 THEN <<"-">> \o NatText(-v) ELSE NatText(v)

\* ss << value for a double. A double is written as a whole number of tenths
\* (25 is 2.5); for these, below 10^5 in size, the default %g formatting of
\* operator<<(double) prints the integer part and the one decimal, if any.
DoubleText(t) ==
    LET a == IF t < 0 THEN -t ELSE t
        whole == NatText(a \div 10)
        frac == IF a % 10 = 0 THEN <<>> ELSE <<".", Digits[(a % 10) + 1]>>
    IN (IF t < 0 THEN <<"-">> ELSE <<>>) \o whole \o frac

\* the elements of a vector, comma separated, between brackets
RECURSIVE JoinText(_, _)
JoinText(texts, i) ==
    IF i > Len(texts) THEN <<>>
    ELSE (IF i > 1 THEN <<",">> ELSE <<>>) \o texts[i] \o JoinText(texts, i + 1)

VectorText(texts) == <<"[">> \o JoinText(texts, 1) \o <<"]">>

\* ------------------------------------------------------------ JSON encoding

\* "\\u" << std::hex << std::setw(4) << std::setfill('0') << (int)c
HexText(n) ==
    << HexDigits[((n \div 4096) % 16) + 1], HexDigits[((n \div 256) % 16) + 1],
       HexDigits[((n \div 16) % 16) + 1], HexDigits[(n % 16) + 1] >>

\* one iteration of the loop of an escape_json_string without the default
\* branch: the control characters that have no short escape are copied
EscapeChar_copies_other_controls(c) ==
    CASE c = "\"" -> <<"\\", "\"">>
      [] c = "\\" -> <<"\\", "\\">>
      [] c = "BS" -> <<"\\", "b">>
      [] c = "FF" -> <<"\\", "f">>
      [] c = "LF" -> <<"\\", "n">>
      [] c = "CR" -> <<"\\", "r">>
      [] c = "TAB" -> <<"\\", "t">>
      [] OTHER -> <<c>>

\* one iteration of the loop of Barrier::escape_json_string
EscapeChar(c) ==
    CASE c = "\"" -> <<"\\", "\"">>
      [] c = "\\" -> <<"\\", "\\">>
      [] c = "BS" -> <<"\\", "b">>
      [] c = "FF" -> <<"\\", "f">>
      [] c = "LF" -> <<"\\", "n">>
      [] c = "CR" -> <<"\\", "r">>
      [] c = "TAB" -> <<"\\", "t">>
      [] OTHER -> IF 0 <= Code(c) /\ Code(c) <= 31
                  THEN <<"\\", "u">> \o HexText(Code(c))
                  ELSE <<c>>

\* Barrier::escape_json_string
RECURSIVE escape_json_string(_)
escape_json_string(str) ==
    IF str = <<>> THEN <<>>
    ELSE EscapeChar(Head(str)) \o escape_json_string(Tail(str))

\* the greatest key of a non-empty set of names: the iteration of a map that
\* is ordered by std::greater
GreatestKey(S) == CHOOSE k \in S : \A o \in S \ {k} : TextLess(o, k)

\* the least key of a non-empty set of names: where std::map iteration starts
FirstKey(S) == CHOOSE k \in S : \A o \in S \ {k} : TextLess(k, o)

Quoted(text) == <<"\"">> \o text \o <<"\"">>

\* the body of the loop of Barrier::make_barrier_json for one entry
EntryJson(name, entry) ==
    LET type == entry[1]
        value == IF type = "string"
                 THEN Quoted(escape_json_string(entry[2]))
                 ELSE entry[2]
    IN Quoted(escape_json_string(name)) \o <<":">> \o value

\* the loop of Barrier::make_barrier_json over the entries left, in key order
RECURSIVE EntriesJson(_, _, _)
EntriesJson(reg, left, first) ==
    IF left = {} THEN <<>>
    ELSE LET k == FirstKey(left)
         IN (IF first THEN <<>> ELSE <<",">>) \o EntryJson(k, reg[k])
            \o EntriesJson(reg, left \ {k}, FALSE)

\* Barrier::make_barrier_json, of the registry it reads and its argument
make_barrier_json(reg, barrier_id) ==
    <<"{">> \o Quoted(<<"b","a","r","r","i","e","r","_","i","d">>) \o <<":">>
    \o Quoted(barrier_id) \o <<",">>
    \o Quoted(<<"v","a","r","i","a","b","l","e","s">>) \o <<":", "{">>
    \o EntriesJson(reg, DOMAIN reg, TRUE) \o <<"}", "}">>

\* the initialization message built in Barrier::connect
InitJson(program_id) ==
    <<"{">> \o Quoted(<<"p","r","o","g","r","a","m","_","i","d">>) \o <<":">>
    \o Quoted(program_id) \o <<"}">>

\* ------------------------------------------------------------- the reply

\* the literal searched for in the response
SuccessToken ==
    <<"\"","s","t","a","t","u","s","\"",":","\"","s","u","c","c","e","s","s","\"">>

\* sizeof(buffer)
BufferSize == 4096

\* std::string(const char*): the characters before the first NUL
RECURSIVE CString(_)
CString(buf) ==
    IF buf = <<>> \/ Head(buf) = "NUL" THEN <<>>
    ELSE <<Head(buf)>> \o CString(Tail(buf))

\* std::string::find(needle) != npos
Contains(text, needle) ==
    \E i \in 0..(Len(text) - Len(needle)) :
        \A j \in 1..Len(needle) : text[i + j] = needle[j]

\* ------------------------------------------------------------ JSON decoding
\* The reference decoder of RFC 8259 that the requests are read back with.

\* the value of a hexadecimal digit, -1 for another character
HexValue(c) ==
    IF \E i \in 1..16 : HexDigits[i] = c
    THEN (CHOOSE i \in 1..16 : HexDigits[i] = c) - 1
    ELSE -1

\* the character with this byte value
CharOfCode(n) ==
    IF \E p \in AsciiTable : p[2] = n
    THEN (CHOOSE p \in AsciiTable : p[2] = n)[1]
    ELSE "other"

\* the character that a two-character escape stands for, "" when there is none
Unescaped(c) ==
    CASE c = "\"" -> "\"" [] c = "\\" -> "\\" [] c = "/" -> "/"
      [] c = "b" -> "BS" [] c = "f" -> "FF" [] c = "n" -> "LF"
      [] c = "r" -> "CR" [] c = "t" -> "TAB" [] OTHER -> ""

NotJson == [ok |-> FALSE, text |-> <<>>]

\* the string that the inside of a JSON string literal stands for; not ok when
\* it holds a raw quote, a raw control character or a backslash that starts no
\* escape
RECURSIVE JsonStringDecode(_)
JsonStringDecode(s) ==
    IF s = <<>> THEN [ok |-> TRUE, text |-> <<>>]
    ELSE IF Head(s) = "\"" \/ Code(Head(s)) < 32 THEN NotJson
    ELSE IF Head(s) # "\\"
    THEN LET rest == JsonStringDecode(Tail(s))
         IN IF rest.ok THEN [ok |-> TRUE, text |-> <<Head(s)>> \o rest.text]
            ELSE NotJson
    ELSE IF Len(s) < 2 THEN NotJson
    ELSE IF Unescaped(s[2]) # ""
    THEN LET rest == JsonStringDecode(SubSeq(s, 3, Len(s)))
         IN IF rest.ok THEN [ok |-> TRUE, text |-> <<Unescaped(s[2])>> \o rest.text]
            ELSE NotJson
    ELSE IF s[2] = "u" /\ Len(s) >= 6 /\ \A i \in 3..6 : HexValue(s[i]) >= 0
    THEN LET n == 4096 * HexValue(s[3]) + 256 * HexValue(s[4])
                  + 16 * HexValue(s[5]) + HexValue(s[6])
             rest == JsonStringDecode(SubSeq(s, 7, Len(s)))
         IN IF rest.ok THEN [ok |-> TRUE, text |-> <<CharOfCode(n)>> \o rest.text]
            ELSE NotJson
    ELSE NotJson

\* the parse of a value of the text from a position: whether there is one, the
\* position after it, and the value: <<"string", text>>, <<"number", tenths,
\* further decimals>>, <<"bool", b>>, <<"null">>, <<"array", items>> or
\* <<"object", keys, values>>, keys and values in the order of the text
NoParse == [ok |-> FALSE, next |-> 0, val |-> <<>>]

Parsed(next, val) == [ok |-> TRUE, next |-> next, val |-> val]

\* the character at a position, "" past the end
At(s, i) == IF i \in 1..Len(s) THEN s[i] ELSE ""

StartsWith(s, i, word) ==
    /\ i + Len(word) - 1 <= Len(s)
    /\ \A j \in 1..Len(word) : s[i + j - 1] = word[j]

RECURSIVE SkipSpace(_, _)
SkipSpace(s, i) ==
    IF At(s, i) \in { " ", "TAB", "LF", "CR" } THEN SkipSpace(s, i + 1) ELSE i

\* the position of the quote that closes a string literal, 0 when none does
RECURSIVE StringEnd(_, _)
StringEnd(s, i) ==
    IF i > Len(s) THEN 0
    ELSE IF s[i] = "\"" THEN i
    ELSE IF s[i] = "\\" THEN StringEnd(s, i + 2)
    ELSE StringEnd(s, i + 1)

ParseString(s, i) ==
    IF At(s, i) # "\"" THEN NoParse
    ELSE LET e == StringEnd(s, i + 1)
         IN IF e = 0 THEN NoParse
            ELSE LET d == JsonStringDecode(SubSeq(s, i + 1, e - 1))
                 IN IF d.ok THEN Parsed(e + 1, <<"string", d.text>>) ELSE NoParse

IsDigit(c) == \E k \in 1..10 : Digits[k] = c

DigitValue(c) == (CHOOSE k \in 1..10 : Digits[k] = c) - 1

\* the first position from i on that holds no digit
RECURSIVE DigitsEnd(_, _)
DigitsEnd(s, i) == IF IsDigit(At(s, i)) THEN DigitsEnd(s, i + 1) ELSE i

\* the number written by the digits at positions i .. j - 1
RECURSIVE NatOf(_, _, _)
NatOf(s, i, j) ==
    IF j <= i THEN 0 ELSE 10 * NatOf(s, i, j - 1) + DigitValue(s[j - 1])

\* the digits at positions i .. j - 1 without the zeros at their end
RECURSIVE Significant(_, _, _)
Significant(s, i, j) ==
    IF j <= i THEN <<>>
    ELSE IF s[j - 1] = "0" THEN Significant(s, i, j - 1)
    ELSE SubSeq(s, i, j - 1)

\* a number: -? int frac?, its value in tenths and its further decimals
\* (numbers with an exponent are not among the texts decoded)
ParseNumber(s, i) ==
    LET a == IF At(s, i) = "-" THEN i + 1 ELSE i
        b == DigitsEnd(s, a)
        c == IF At(s, b) = "." THEN DigitsEnd(s, b + 1) ELSE b
        tenths == 10 * NatOf(s, a, b) + (IF c > b + 1 THEN DigitValue(s[b + 1]) ELSE 0)
    IN IF b = a \/ (At(s, a) = "0" /\ b > a + 1) \/ (At(s, b) = "." /\ c = b + 1)
          \/ At(s, c) \in { "e", "E" }
       THEN NoParse
       ELSE Parsed(c, <<"number", IF a > i THEN -tenths ELSE tenths,
                        IF c > b + 2 THEN Significant(s, b + 2, c) ELSE <<>> >>)

RECURSIVE ParseValue(_, _), ArrayItems(_, _, _), Members(_, _, _, _)

\* the items of an array from position i on, after those of acc
ArrayItems(s, i, acc) ==
    LET v == ParseValue(s, i)
        j == SkipSpace(s, v.next)
    IN IF ~v.ok THEN NoParse
       ELSE IF At(s, j) = "," THEN ArrayItems(s, j + 1, Append(acc, v.val))
       ELSE IF At(s, j) = "]" THEN Parsed(j + 1, <<"array", Append(acc, v.val)>>)
       ELSE NoParse

\* the members of an object from position i on, after those of keys and vals
Members(s, i, keys, vals) ==
    LET k == ParseString(s, SkipSpace(s, i))
        colon == SkipSpace(s, k.next)
        v == ParseValue(s, colon + 1)
        j == SkipSpace(s, v.next)
    IN IF ~k.ok \/ At(s, colon) # ":" THEN NoParse
       ELSE IF ~v.ok THEN NoParse
       ELSE IF At(s, j) = ","
       THEN Members(s, j + 1, Append(keys, k.val[2]), Append(vals, v.val))
       ELSE IF At(s, j) = "}"
       THEN Parsed(j + 1, <<"object", Append(keys, k.val[2]), Append(vals, v.val)>>)
       ELSE NoParse

ParseValue(s, from) ==
    LET i == SkipSpace(s, from)
        c == At(s, i)
    IN CASE c = "\"" -> ParseString(s, i)
         [] c = "{" -> IF At(s, SkipSpace(s, i + 1)) = "}"
                       THEN Parsed(SkipSpace(s, i + 1) + 1, <<"object", <<>>, <<>> >>)
                       ELSE Members(s, i + 1, <<>>, <<>>)
         [] c = "[" -> IF At(s, SkipSpace(s, i + 1)) = "]"
                       THEN Parsed(SkipSpace(s, i + 1) + 1, <<"array", <<>> >>)
                       ELSE ArrayItems(s, i + 1, <<>>)
         [] c = "t" -> IF StartsWith(s, i, <<"t","r","u","e">>)
                       THEN Parsed(i + 4, <<"bool", TRUE>>) ELSE NoParse
         [] c = "f" -> IF StartsWith(s, i, <<"f","a","l","s","e">>)
                       THEN Parsed(i + 5, <<"bool", FALSE>>) ELSE NoParse
         [] c = "n" -> IF StartsWith(s, i, <<"n","u","l","l">>)
                       THEN Parsed(i + 4, <<"null">>) ELSE NoParse
         [] c = "-" \/ IsDigit(c) -> ParseNumber(s, i)
         [] OTHER -> NoParse

\* the value that a JSON text stands for: the text is one value and nothing else
JsonDecode(text) ==
    LET r == ParseValue(text, 1)
    IN IF r.ok /\ SkipSpace(text, r.next) = Len(text) + 1
       THEN [ok |-> TRUE, val |-> r.val]
       ELSE [ok |-> FALSE, val |-> <<>>]

\* the names of the members of a decoded object
KeysOf(obj) == { obj[2][i] : i \in DOMAIN obj[2] }

\* the value of a member of a decoded object: of the last one with that name
Member(obj, key) ==
    LET last == CHOOSE i \in DOMAIN obj[2] :
                   obj[2][i] = key /\ \A j \in DOMAIN obj[2] : obj[2][j] = key => j <= i
    IN obj[3][last]

\* ------------------------------------------------------------------ inputs

\* variable names the caller registers
Names == { <<"x">>, <<"y">> }

\* barrier identifiers the caller waits at
BarrierIds == { <<"b">> }

\* the program identifier given to the constructor
ProgramIds == { <<"p">> }

IntInputs == { -3 }

\* in tenths: 2.5
DoubleInputs == { 25 }

StringInputs == { <<"a">> }

IntVectorInputs == { <<1, 2>> }

DoubleVectorInputs == { <<25>> }

\* the descriptor socket() returns
NewFd == 3

\* what send() can do: deliver the message, fail with -1, or find the peer
\* gone (EPIPE, which raises SIGPIPE first: the flags argument is 0)
SendResults == { "ok", "err", "epipe" }

\* replies the coordinator can write
ReplySuccess == <<"{">> \o SuccessToken \o <<"}">>

ReplyFailure ==
    <<"{","\"","s","t","a","t","u","s","\"",":","\"","f","a","i","l","u","r","e","\"","}">>

ReplyNulSuccess == <<"NUL">> \o SuccessToken

ReplySet == { ReplySuccess, ReplyFailure, ReplyNulSuccess }

\* ------------------------------------------------------------------- state

VARIABLES
    life,         \* the calling process: "unborn" (no client yet), "constructed",
                  \* "ctor_threw", or "terminated" (killed, no further step)
    sigpipe,      \* the process's disposition of SIGPIPE, which the client never sets
    program_id_,  \* Barrier::program_id_
    socket_fd_,   \* Barrier::socket_fd_ ("uninit" until socket() is called)
    connected_,   \* Barrier::connected_
    variables_,   \* Barrier::variables_: name -> <<type, value text>>
    pc,           \* where the caller is: "idle", or "recv" (inside wait, in recv)
    fd_state,     \* the descriptor in the kernel: "none", "open", "closed"
    close_calls,  \* close() calls made on the descriptor
    peer,         \* the coordinator's end: "none", "open", "closed"
    pending,      \* barrier requests the coordinator has received and not answered
    coordOut,     \* the rest of the reply the coordinator is writing
    inbox,        \* bytes in the client's socket receive buffer
    replies,      \* history: the replies the coordinator wrote, in order
    oplog,        \* history: the send and recv calls of the client, with outcome
    request,      \* the barrier request of the wait in progress, once sent
    sinceWait,    \* history: what add_* registered since the last wait returned
    call,         \* history: the last operation called, the state it was called in,
                  \* its outcome and the socket calls it made
    states,       \* history: the client states passed through
    ctor,         \* history: what getenv, socket, ::connect and send returned to
                  \* the constructor
    calls,        \* member function calls made
    teardowns     \* teardowns run

\* the calls under study in the specifications of the pure functions and of the
\* registry, and the discipline of the callers of one client
VARIABLES
    str,          \* the argument of a call of escape_json_string
    escaped,      \* what that call returned: << >> before it, then <<text>>
    registry,     \* per client of Clients: its variables_
    added,        \* per client: history, the add_* calls made, with their arguments
    emitted,      \* per client: << >>, then <<[id, json]>>: the argument and the
                  \* result of its call of make_barrier_json
    lock,         \* the callers of the client serialise their calls with one lock
    racing        \* history: what a second caller registered while the first was
                  \* inside wait, after the request was encoded

\* the state of the client, its process, its socket and its coordinator
client == << life, sigpipe, program_id_, socket_fd_, connected_, variables_, pc,
             fd_state, close_calls, peer, pending, coordOut, inbox, replies, oplog,
             request, sinceWait, call, states, ctor, calls, teardowns >>

bench == << str, escaped, registry, added, emitted >>

callers == << lock, racing >>

vars == << client, bench, callers >>

EmptyRegistry == << >>

NoRequest == [id |-> <<>>, json |-> <<>>]

NoCtor == [env |-> "skipped", sock |-> "skipped", conn |-> "skipped", send |-> "skipped"]

NoCall == [op |-> "none", at |-> "Unconnected", out |-> "none", io |-> 0]

\* the state before the client is constructed
ClientInit ==
    /\ life = "unborn"
    /\ sigpipe \in { "SIG_DFL", "SIG_IGN" }
    /\ program_id_ = <<>>
    /\ socket_fd_ = "uninit"
    /\ connected_ = FALSE
    /\ variables_ = EmptyRegistry
    /\ pc = "idle"
    /\ fd_state = "none"
    /\ close_calls = 0
    /\ peer = "none"
    /\ pending = 0
    /\ coordOut = <<>>
    /\ inbox = <<>>
    /\ replies = <<>>
    /\ oplog = <<>>
    /\ request = NoRequest
    /\ sinceWait = EmptyRegistry
    /\ call = NoCall
    /\ states = <<"Unconnected">>
    /\ ctor = NoCtor
    /\ calls = 0
    /\ teardowns = 0

\* the clients whose registries and requests are compared
Clients == { "first", "second" }

\* no call under study has been made
BenchIdle ==
    /\ str = <<>>
    /\ escaped = <<>>
    /\ registry = [c \in Clients |-> EmptyRegistry]
    /\ added = [c \in Clients |-> <<>>]
    /\ emitted = [c \in Clients |-> <<>>]

\* the client has one caller, which is as good as a lock
OneCaller == lock = TRUE /\ racing = EmptyRegistry

Init == ClientInit /\ BenchIdle /\ OneCaller

\* the state of the client in the terms of the specification's state machine
ClientState ==
    IF teardowns > 0 THEN "Closed"
    ELSE IF connected_ THEN "Connected"
    ELSE "Unconnected"

\* the object's lifetime has ended: its constructor threw or its destructor ran
LifetimeOver == life = "ctor_threw" \/ teardowns > 0

\* a caller can call a member function: the process runs and is not inside wait
CanCall ==
    life \in { "constructed", "ctor_threw" } /\ pc = "idle" /\ calls < MaxCalls

Logged(op, what, res) == [op |-> op, what |-> what, res |-> res]

\* the log entry of the send of the initialization message
Hello(program_id, res) ==
    [op |-> "send", what |-> "handshake", res |-> res, text |-> InitJson(program_id)]

\* states' after a step: the client state, appended when it changed
Track(now) == IF now = states[Len(states)] THEN states ELSE Append(states, now)

\* ------------------------------------------------------------ construction

\* Barrier::connect with connected_ = true moved before the send of the
\* initialization message
connect_sets_flag_before_send(envSet, sockRes, connRes, sendRes, disposition) ==
    LET none == [connected |-> FALSE, fd |-> "uninit", exc |-> "none",
                 sockets |-> 0, closes |-> 0, sends |-> 0, killed |-> FALSE]
    IN IF ~envSet
       THEN [none EXCEPT !.exc = "CODETANGO_SOCKET environment variable not set"]
       ELSE IF sockRes = -1
       THEN [none EXCEPT !.fd = -1, !.exc = "Failed to create socket"]
       ELSE IF connRes = -1
       THEN [none EXCEPT !.fd = sockRes, !.sockets = 1, !.closes = 1,
                         !.exc = "Failed to connect to CodeTango"]
       ELSE IF sendRes = "epipe" /\ disposition = "SIG_DFL"
       THEN [none EXCEPT !.fd = sockRes, !.sockets = 1, !.sends = 1,
                         !.connected = TRUE, !.killed = TRUE]
       ELSE IF sendRes # "ok"
       THEN [none EXCEPT !.fd = sockRes, !.sockets = 1, !.sends = 1, !.closes = 1,
                         !.connected = TRUE, !.exc = "Failed to send init message"]
       ELSE [none EXCEPT !.fd = sockRes, !.sockets = 1, !.sends = 1,
                         !.connected = TRUE]

\* Barrier::connect, of what getenv, socket, ::connect and send return and of
\* the SIGPIPE disposition: the flag and descriptor it leaves, the exception it
\* throws, the sockets it creates, the close calls and the sends it makes
connect(envSet, sockRes, connRes, sendRes, disposition) ==
    LET none == [connected |-> FALSE, fd |-> "uninit", exc |-> "none",
                 sockets |-> 0, closes |-> 0, sends |-> 0, killed |-> FALSE]
    IN IF ~envSet
       THEN [none EXCEPT !.exc = "CODETANGO_SOCKET environment variable not set"]
       ELSE IF sockRes = -1
       THEN [none EXCEPT !.fd = -1, !.exc = "Failed to create socket"]
       ELSE IF connRes = -1
       THEN [none EXCEPT !.fd = sockRes, !.sockets = 1, !.closes = 1,
                         !.exc = "Failed to connect to CodeTango"]
       ELSE IF sendRes = "epipe" /\ disposition = "SIG_DFL"
       THEN [none EXCEPT !.fd = sockRes, !.sockets = 1, !.sends = 1,
                         !.killed = TRUE]
       ELSE IF sendRes # "ok"
       THEN [none EXCEPT !.fd = sockRes, !.sockets = 1, !.sends = 1, !.closes = 1,
                         !.exc = "Failed to send init message"]
       ELSE [none EXCEPT !.fd = sockRes, !.sockets = 1, !.sends = 1,
                         !.connected = TRUE]

\* what each step of the construction returned, for the steps that ran: a step
\* runs when the steps before it succeeded
StepsRun(envSet, sockRes, connRes, sendRes) ==
    LET sockRan == envSet
        connRan == sockRan /\ sockRes # -1
        sendRan == connRan /\ connRes # -1
    IN [env |-> IF envSet THEN "set" ELSE "unset",
        sock |-> IF ~sockRan THEN "skipped" ELSE IF sockRes = -1 THEN "err" ELSE "ok",
        conn |-> IF ~connRan THEN "skipped" ELSE IF connRes = -1 THEN "err" ELSE "ok",
        send |-> IF ~sendRan THEN "skipped" ELSE sendRes]

\* Barrier::Barrier(program_id)
Construct(program_id, envSet, sockRes, connRes, sendRes) ==
    LET r == connect(envSet, sockRes, connRes, sendRes, sigpipe)
        accepted == r.sockets = 1 /\ connRes = 0
    IN /\ life = "unborn"
       /\ life' = IF r.killed THEN "terminated"
                  ELSE IF r.exc = "none" THEN "constructed" ELSE "ctor_threw"
       /\ program_id_' = program_id
       /\ socket_fd_' = r.fd
       /\ connected_' = r.connected
       /\ fd_state' = IF r.sockets = 0 THEN "none"
                      ELSE IF r.closes > 0 THEN "closed" ELSE "open"
       /\ close_calls' = close_calls + r.closes
       /\ peer' = IF ~accepted THEN "none"
                  ELSE IF sendRes = "epipe" THEN "closed" ELSE "open"
       /\ oplog' = IF r.sends = 0 THEN oplog
                   ELSE Append(oplog, Hello(program_id, sendRes))
       /\ ctor' = StepsRun(envSet, sockRes, connRes, sendRes)
       /\ call' = [op |-> "construct", at |-> ClientState,
                   out |-> IF r.killed THEN "killed" ELSE r.exc, io |-> r.sends]
       /\ UNCHANGED << bench, callers >>
       /\ UNCHANGED << sigpipe, variables_, pc, pending, coordOut, inbox, replies,
                       request, sinceWait, calls, teardowns >>
       /\ states' = Track(ClientState')

\* ---------------------------------------------------------------- teardown

\* Barrier::~Barrier: the close calls it makes on socket_fd_
destructor(conn) == IF conn THEN 1 ELSE 0

\* the teardown of the client. A second one runs the same body on the same
\* storage, whose members the first left as they were.
Teardown ==
    /\ CanCall
    /\ calls' = calls + 1
    /\ teardowns' = teardowns + 1
    /\ close_calls' = close_calls + destructor(connected_)
    /\ fd_state' = IF destructor(connected_) > 0 THEN "closed" ELSE fd_state
    /\ call' = [op |-> "teardown", at |-> ClientState, out |-> "none", io |-> 0]
    /\ UNCHANGED << bench, callers >>
    /\ UNCHANGED << life, sigpipe, program_id_, socket_fd_, connected_, variables_,
                    pc, peer, pending, coordOut, inbox, replies, oplog, request,
                    sinceWait, ctor >>
    /\ states' = Track(ClientState')

\* a member function called on an object whose lifetime has ended is undefined
\* behaviour: it runs on the storage as the code reads (the actions below), or
\* the process is aborted
AbortOnDeadObject ==
    /\ CanCall
    /\ LifetimeOver
    /\ life' = "terminated"
    /\ call' = [op |-> "dead_object", at |-> ClientState, out |-> "killed", io |-> 0]
    /\ UNCHANGED << bench, callers >>
    /\ UNCHANGED << sigpipe, program_id_, socket_fd_, connected_, variables_, pc,
                    fd_state, close_calls, peer, pending, coordOut, inbox, replies,
                    oplog, request, sinceWait, states, ctor, calls, teardowns >>

\* ------------------------------------------------------------ the registry

\* variables_.insert({name, entry}): a name that is in the map keeps its entry
Put_keeps_first_entry(reg, name, entry) ==
    [k \in (DOMAIN reg) \cup {name} |-> IF k \in DOMAIN reg THEN reg[k] ELSE entry]

\* variables_[name] = entry
Put(reg, name, entry) ==
    [k \in (DOMAIN reg) \cup {name} |-> IF k = name THEN entry ELSE reg[k]]

\* an add_* that checks the connection as wait does and refuses the call on a
\* client that is not connected
Register_refuses_when_not_connected(op, name, entry) ==
    /\ CanCall
    /\ calls' = calls + 1
    /\ variables_' = IF connected_ THEN Put(variables_, name, entry) ELSE variables_
    /\ sinceWait' = IF connected_ THEN Put(sinceWait, name, entry) ELSE sinceWait
    /\ call' = [op |-> op, at |-> ClientState,
                out |-> IF connected_ THEN "ok" ELSE "not_connected", io |-> 0]
    /\ UNCHANGED << bench, callers >>
    /\ UNCHANGED << life, sigpipe, program_id_, socket_fd_, connected_, pc, fd_state,
                    close_calls, peer, pending, coordOut, inbox, replies, oplog,
                    request, states, ctor, teardowns >>

\* what every add_* does with the entry it has built
Register(op, name, entry) ==
    /\ CanCall
    /\ calls' = calls + 1
    /\ variables_' = Put(variables_, name, entry)
    /\ sinceWait' = Put(sinceWait, name, entry)
    /\ call' = [op |-> op, at |-> ClientState, out |-> "ok", io |-> 0]
    /\ UNCHANGED << bench, callers >>
    /\ UNCHANGED << life, sigpipe, program_id_, socket_fd_, connected_, pc, fd_state,
                    close_calls, peer, pending, coordOut, inbox, replies, oplog,
                    request, states, ctor, teardowns >>

\* the entry that each setter builds from its argument: the type tag and the
\* text of the value
Built(op, value) ==
    CASE op = "add_int" -> <<"int", IntText(value)>>
      [] op = "add_double" -> <<"double", DoubleText(value)>>
      [] op = "add_string" -> <<"string", value>>
      [] op = "add_bool" ->
           <<"bool", IF value THEN <<"t","r","u","e">> ELSE <<"f","a","l","s","e">> >>
      [] op = "add_int_vector" ->
           <<"int_vector", VectorText([i \in 1..Len(value) |-> IntText(value[i])])>>
      [] op = "add_double_vector" ->
           <<"double_vector",
             VectorText([i \in 1..Len(value) |-> DoubleText(value[i])])>>

\* Barrier::add_int
add_int(name, value) == Register("add_int", name, Built("add_int", value))

\* Barrier::add_double
add_double(name, value) == Register("add_double", name, Built("add_double", value))

\* Barrier::add_string
add_string(name, value) == Register("add_string", name, Built("add_string", value))

\* Barrier::add_bool
add_bool(name, value) == Register("add_bool", name, Built("add_bool", value))

\* Barrier::add_int_vector
add_int_vector(name, values) ==
    Register("add_int_vector", name, Built("add_int_vector", values))

\* Barrier::add_double_vector
add_double_vector(name, values) ==
    Register("add_double_vector", name, Built("add_double_vector", values))

\* -------------------------------------------------------------------- wait

\* what send(socket_fd_, ...) can return now: EBADF on a closed descriptor,
\* EPIPE when the coordinator has closed its end, else delivery or an error
SendCanReturn ==
    IF fd_state # "open" THEN { "err" }
    ELSE IF peer = "closed" THEN { "epipe" }
    ELSE { "ok", "err" }

\* Barrier::wait with a client that gives the connection up after a wait that
\* returned false: the next wait finds it not connected
wait_gives_up_after_failure(conn, reg, barrier_id, sendRes, disposition) ==
    IF ~conn \/ (call.op = "wait" /\ call.out = "false")
    THEN [out |-> "not_connected", sends |-> 0, json |-> <<>>, reg |-> reg]
    ELSE LET json == make_barrier_json(reg, barrier_id)
         IN IF sendRes = "epipe" /\ disposition = "SIG_DFL"
            THEN [out |-> "killed", sends |-> 1, json |-> json, reg |-> reg]
            ELSE IF sendRes # "ok"
            THEN [out |-> "false", sends |-> 1, json |-> json, reg |-> reg]
            ELSE [out |-> "pending", sends |-> 1, json |-> json, reg |-> reg]

\* Barrier::wait up to the call of recv: the outcome so far ("pending" when the
\* request was sent), the send calls made, the message and the registry left
wait_to_send(conn, reg, barrier_id, sendRes, disposition) ==
    IF ~conn
    THEN [out |-> "not_connected", sends |-> 0, json |-> <<>>, reg |-> reg]
    ELSE LET json == make_barrier_json(reg, barrier_id)
         IN IF sendRes = "epipe" /\ disposition = "SIG_DFL"
            THEN [out |-> "killed", sends |-> 1, json |-> json, reg |-> reg]
            ELSE IF sendRes # "ok"
            THEN [out |-> "false", sends |-> 1, json |-> json, reg |-> reg]
            ELSE [out |-> "pending", sends |-> 1, json |-> json, reg |-> reg]

\* Barrier::wait from the return of recv, without variables_.clear()
wait_from_recv_without_clear(received, buffer, reg) ==
    IF received <= 0
    THEN [out |-> "false", reg |-> reg]
    ELSE LET response == CString(SubSeq(buffer, 1, received))
         IN [out |-> IF Contains(response, SuccessToken) THEN "true" ELSE "false",
             reg |-> reg]

\* Barrier::wait from the return of recv: the value returned, the registry left
wait_from_recv(received, buffer, reg) ==
    IF received <= 0
    THEN [out |-> "false", reg |-> reg]
    ELSE LET response == CString(SubSeq(buffer, 1, received))
         IN [out |-> IF Contains(response, SuccessToken) THEN "true" ELSE "false",
             reg |-> EmptyRegistry]

\* Barrier::wait(barrier_id), to its return or to the point where it blocks in recv
wait(barrier_id, sendRes) ==
    LET r == wait_to_send(connected_, variables_, barrier_id, sendRes, sigpipe)
    IN /\ CanCall
       /\ sendRes \in SendCanReturn
       /\ calls' = calls + 1
       /\ life' = IF r.out = "killed" THEN "terminated" ELSE life
       /\ pc' = IF r.out = "pending" THEN "recv" ELSE "idle"
       /\ variables_' = r.reg
       /\ pending' = IF r.out = "pending" THEN pending + 1 ELSE pending
       /\ request' = IF r.out = "pending"
                     THEN [id |-> barrier_id, json |-> r.json] ELSE NoRequest
       /\ oplog' = IF r.sends = 0 THEN oplog
                   ELSE Append(oplog, Logged("send", "barrier", sendRes))
       /\ sinceWait' = IF r.out = "false" THEN EmptyRegistry ELSE sinceWait
       /\ call' = [op |-> "wait", at |-> ClientState, out |-> r.out, io |-> r.sends]
       /\ UNCHANGED << bench, callers >>
       /\ UNCHANGED << sigpipe, program_id_, socket_fd_, connected_, fd_state,
                       close_calls, peer, coordOut, inbox, replies, states, ctor,
                       teardowns >>

\* recv(socket_fd_, buffer, sizeof(buffer) - 1, 0) returns: the bytes waiting, up
\* to the size asked for; 0 when there are none and the coordinator has closed;
\* -1 when a signal interrupts the blocked call. Then the rest of Barrier::wait.
wait_resume(interrupted) ==
    LET received == IF inbox # <<>> THEN Min(Len(inbox), BufferSize - 1)
                    ELSE IF interrupted THEN -1 ELSE 0
        r == wait_from_recv(received, inbox, variables_)
    IN /\ pc = "recv"
       /\ life = "constructed"
       /\ inbox = <<>> => (interrupted \/ peer = "closed")
       /\ inbox # <<>> => ~interrupted
       /\ pc' = "idle"
       /\ inbox' = IF received > 0 THEN SubSeq(inbox, received + 1, Len(inbox))
                   ELSE inbox
       /\ variables_' = r.reg
       /\ request' = NoRequest
       /\ sinceWait' = EmptyRegistry
       /\ oplog' = Append(oplog, Logged("recv", "reply",
                       IF received > 0 THEN "data"
                       ELSE IF received = 0 THEN "eof" ELSE "err"))
       /\ call' = [call EXCEPT !.out = r.out, !.io = call.io + 1]
       /\ UNCHANGED << bench, callers >>
       /\ UNCHANGED << life, sigpipe, program_id_, socket_fd_, connected_, fd_state,
                       close_calls, peer, pending, coordOut, replies, states, ctor,
                       calls, teardowns >>

\* ---------------------------------------------------------- the coordinator

CoordinatorRuns == life = "constructed" /\ fd_state = "open" /\ peer = "open"

\* the coordinator answers the oldest request it has not answered
CoordReply(reply) ==
    /\ CoordinatorRuns
    /\ pending > 0
    /\ coordOut = <<>>
    /\ pending' = pending - 1
    /\ coordOut' = reply
    /\ replies' = Append(replies, reply)
    /\ UNCHANGED << bench, callers >>
    /\ UNCHANGED << life, sigpipe, program_id_, socket_fd_, connected_, variables_,
                    pc, fd_state, close_calls, peer, inbox, oplog, request,
                    sinceWait, call, states, ctor, calls, teardowns >>

\* the coordinator writes more of the reply to the socket: all that is left,
\* or a first piece of it
CoordDeliver(whole) ==
    LET n == IF whole THEN Len(coordOut) ELSE Min(FirstPiece, Len(coordOut))
    IN
    /\ CoordinatorRuns
    /\ coordOut # <<>>
    /\ inbox' = inbox \o SubSeq(coordOut, 1, n)
    /\ coordOut' = SubSeq(coordOut, n + 1, Len(coordOut))
    /\ UNCHANGED << bench, callers >>
    /\ UNCHANGED << life, sigpipe, program_id_, socket_fd_, connected_, variables_,
                    pc, fd_state, close_calls, peer, pending, replies, oplog,
                    request, sinceWait, call, states, ctor, calls, teardowns >>

\* the coordinator closes its end; what it had not written is never sent
CoordClose ==
    /\ CoordinatorRuns
    /\ peer' = "closed"
    /\ coordOut' = <<>>
    /\ UNCHANGED << bench, callers >>
    /\ UNCHANGED << life, sigpipe, program_id_, socket_fd_, connected_, variables_,
                    pc, fd_state, close_calls, pending, inbox, replies, oplog,
                    request, sinceWait, call, states, ctor, calls, teardowns >>

\* ----------------------------------------------------------- specification

Next ==
    \/ \E id \in ProgramIds, envSet \in BOOLEAN, sockRes \in { NewFd, -1 },
          connRes \in { 0, -1 }, sendRes \in SendResults :
          Construct(id, envSet, sockRes, connRes, sendRes)
    \/ Teardown
    \/ AbortOnDeadObject
    \/ \E name \in Names, value \in IntInputs : add_int(name, value)
    \/ \E name \in Names, value \in DoubleInputs : add_double(name, value)
    \/ \E name \in Names, value \in StringInputs : add_string(name, value)
    \/ \E name \in Names, value \in BOOLEAN : add_bool(name, value)
    \/ \E name \in Names, values \in IntVectorInputs : add_int_vector(name, values)
    \/ \E name \in Names, values \in DoubleVectorInputs :
          add_double_vector(name, values)
    \/ \E id \in BarrierIds, sendRes \in SendResults : wait(id, sendRes)
    \/ \E interrupted \in BOOLEAN : wait_resume(interrupted)
    \/ \E reply \in ReplySet : CoordReply(reply)
    \/ \E whole \in BOOLEAN : CoordDeliver(whole)
    \/ CoordClose

Spec == Init /\ [][Next]_vars

\* ------------------------------------------------------------------ claims

\* the last operation was a wait that has returned a value
WaitReturned == call.op = "wait" /\ call.out \in { "true", "false" }

\* positions of the log with a call of this kind
LogSet(op, what) == { i \in DOMAIN oplog : oplog[i].op = op /\ oplog[i].what = what }

\* positions of the log with a call of this kind and this outcome
LogHits(op, what, res) == { i \in LogSet(op, what) : oplog[i].res = res }

\* barrier requests delivered to the coordinator whose reply the client has not read
InFlight ==
    Cardinality(LogHits("send", "barrier", "ok"))
    - Cardinality(LogHits("recv", "reply", "data"))

\* C1: after every return of wait on a connected client, whatever the outcome,
\* the variable registry is empty.
C1_RegistryEmptyAfterWait ==
    (WaitReturned /\ call.at = "Connected") => variables_ = EmptyRegistry

\* C2: the variables carried by the barrier request of a wait are exactly the
\* name/value pairs registered since the previous wait returned, one entry per
\* name with the latest value: the request is the encoding of those pairs.
C2_RequestCarriesWhatWasRegisteredSinceLastWait ==
    pc = "recv" => request.json = make_barrier_json(sinceWait, request.id)

\* C3: a connected wait whose send succeeded and that read a reply returns true
\* if and only if the reply the coordinator sent to its request contains the
\* success token.
C3_TrueIffReplyContainsToken ==
    LET k == Cardinality(LogHits("send", "barrier", "ok"))
    IN (WaitReturned /\ call.at = "Connected" /\ call.io = 2
          /\ oplog[Len(oplog)].res = "data")
       => (call.out = "true"
             <=> (k <= Len(replies) /\ Contains(replies[k], SuccessToken)))

\* C4: in the Connected state wait never raises a fault: it is blocked in recv or
\* has returned true or false, and the calling program is still running, also
\* when the coordinator closed the connection before wait was called.
C4_ConnectedWaitNeverFaults ==
    (call.op = "wait" /\ call.at = "Connected")
    => (call.out \in { "pending", "true", "false" } /\ life # "terminated")

\* C5: wait on a client that is not Connected (construction did not succeed, or
\* teardown has run) fails with the not-connected error and makes no send and
\* no recv.
C5_WaitWhenNotConnectedFailsWithoutIO ==
    (call.op = "wait" /\ call.at # "Connected")
    => (call.out = "not_connected" /\ call.io = 0)

\* the place of a client state in Unconnected -> Connected -> Closed
Rank(state) == CASE state = "Unconnected" -> 0 [] state = "Connected" -> 1
                 [] state = "Closed" -> 2

\* C6: the client state only moves Unconnected -> Connected -> Closed, never
\* back, and once the client is Closed every wait and every add_* fails with the
\* not-connected error.
C6_ClosedIsFinalAndRefusesOperations ==
    /\ \A i \in 1..(Len(states) - 1) : Rank(states[i]) < Rank(states[i + 1])
    /\ (call.at = "Closed" /\ call.op \notin { "teardown", "dead_object" })
       => call.out = "not_connected"

\* C7: over any run of a client the socket descriptor obtained at construction
\* is closed exactly once: never a second time, and not zero times once the
\* client has been torn down or its construction has failed.
C7_DescriptorClosedExactlyOnce ==
    /\ close_calls <= 1
    /\ (fd_state # "none" /\ (teardowns > 0 \/ life = "ctor_threw"))
       => close_calls = 1

\* C8: at every point of any sequence of wait calls on one client, at most one
\* barrier request is in flight on the connection.
C8_AtMostOneRequestInFlight == InFlight <= 1

\* C9: construction marks the client Connected if and only if the address was
\* resolved, the socket created, the connect and the handshake send succeeded; a
\* missing CODETANGO_SOCKET fails before any socket is created; a failure of
\* connect or of the handshake send raises an error and leaves no Connected client.
C9_ConnectedIffEveryStepSucceeded ==
    ctor # NoCtor =>
      /\ connected_ <=> (ctor.env = "set" /\ ctor.sock = "ok" /\ ctor.conn = "ok"
                           /\ ctor.send = "ok")
      /\ ctor.env = "unset" => (fd_state = "none" /\ socket_fd_ = "uninit"
                                  /\ states = <<"Unconnected">>)
      /\ (ctor.conn = "err" \/ ctor.send \in { "err", "epipe" })
         => (states[1] = "Unconnected" /\ ~connected_
               /\ \A i \in DOMAIN states : states[i] # "Connected")
      /\ (ctor.conn = "err" \/ ctor.send \in { "err", "epipe" })
         => (call.op = "construct" => call.out \in
               { "Failed to connect to CodeTango", "Failed to send init message" })

\* C10: on each connection the handshake message {"program_id": ...} is sent
\* exactly once (one send of it is made, and a Connected client has delivered
\* it), it is the first message on the connection, every barrier request is
\* sent after it, and the client makes no recv between the handshake and the
\* first barrier request.
C10_HandshakeOnceAndFirst ==
    /\ Cardinality(LogSet("send", "handshake")) = (IF ctor.conn = "ok" THEN 1 ELSE 0)
    /\ LogSet("send", "handshake") \subseteq { 1 }
    /\ \A h \in LogSet("send", "handshake") : oplog[h].text = InitJson(program_id_)
    /\ connected_ => LogHits("send", "handshake", "ok") = { 1 }
    /\ \A b \in LogSet("send", "barrier") :
          b > 1 /\ LogHits("send", "handshake", "ok") = { 1 }
    /\ \A r \in LogSet("recv", "reply") :
          \E b \in LogHits("send", "barrier", "ok") : b < r

\* C10 witness: a handshake, then a barrier request, then the read of a reply
C10_Witness ==
    /\ Len(oplog) >= 3
    /\ oplog[1] = Hello(program_id_, "ok")
    /\ oplog[2] = Logged("send", "barrier", "ok")
    /\ oplog[3] = Logged("recv", "reply", "data")

\* the last operation was a connected wait that returned false because its send
\* failed or because its recv returned no data
WaitFailedOnTransport ==
    /\ WaitReturned /\ call.at = "Connected" /\ call.out = "false"
    /\ oplog[Len(oplog)].res \in { "err", "epipe", "eof" }

\* C11: after a wait that returned false because of a send or recv failure the
\* client is still Connected with its descriptor open, and a wait called next
\* does not raise the not-connected error, makes no new socket or connection,
\* and makes one send of a barrier request on the same socket descriptor.
C11_FailedWaitKeepsConnection ==
    [][ WaitFailedOnTransport =>
          /\ ClientState = "Connected" /\ connected_ /\ fd_state = "open"
          /\ socket_fd_ = NewFd
          /\ (call'.op = "wait" /\ calls' = calls + 1) =>
                /\ call'.at = "Connected"
                /\ call'.out \in { "pending", "false", "killed" }
                /\ call'.io = 1
                /\ oplog' = Append(oplog, Logged("send", "barrier",
                                                 oplog'[Len(oplog')].res))
                /\ socket_fd_' = socket_fd_ /\ connected_'
                /\ ctor' = ctor /\ close_calls' = close_calls
                /\ fd_state' = fd_state ]_vars

\* C11 witness: a wait whose send failed, a wait whose recv failed, and a
\* third wait that has sent its request on the same descriptor
C11_Witness ==
    /\ Len(oplog) = 5
    /\ oplog[2] = Logged("send", "barrier", "err")
    /\ oplog[3] = Logged("send", "barrier", "ok")
    /\ oplog[4] = Logged("recv", "reply", "err")
    /\ oplog[5] = Logged("send", "barrier", "ok")
    /\ call.op = "wait" /\ call.at = "Connected" /\ pc = "recv"
    /\ socket_fd_ = NewFd /\ close_calls = 0

\* --------------------------------------------- escape_json_string, by itself

\* the longest string escaped
MaxStrLen == 2

\* the quote, the backslash, control characters with and without a short
\* escape, and ordinary characters, those of the escapes among them
StrChars == { "\"", "\\", "NUL", "SOH", "BS", "TAB", "LF", "FF", "CR", "US",
              "a", "u", "n", "0" }

Strings(n) == UNION { [1..k -> StrChars] : k \in 0..n }

EscapeInit ==
    /\ ClientInit /\ OneCaller
    /\ str \in Strings(MaxStrLen)
    /\ escaped = <<>>
    /\ registry = [c \in Clients |-> EmptyRegistry]
    /\ added = [c \in Clients |-> <<>>]
    /\ emitted = [c \in Clients |-> <<>>]

\* a call escape_json_string(str)
Escape ==
    /\ escaped = <<>>
    /\ escaped' = <<escape_json_string(str)>>
    /\ UNCHANGED << client, str, registry, added, emitted, callers >>

EscapeNext == Escape

EscapeSpec == EscapeInit /\ [][EscapeNext]_vars

\* C13: what escape_json_string returns holds no raw control character, no
\* unescaped quote and no backslash outside an escape, and JSON string decoding
\* of it gives the argument back.
C13_EscapeRoundTrips ==
    escaped # <<>> =>
       /\ \A i \in 1..Len(escaped[1]) : Code(escaped[1][i]) >= 32
       /\ JsonStringDecode(escaped[1]) = [ok |-> TRUE, text |-> str]

\* C13 witness: a string with a quote and a control character that has no short
\* escape has been escaped
C13_Witness ==
    /\ str = <<"\"", "US">>
    /\ escaped = << <<"\\", "\"", "\\", "u", "0", "0", "1", "f">> >>

\* ------------------------------------- the registry and make_barrier_json

\* add_* calls made on one client before its request is encoded
MaxAdds == 2

Setters == { "add_int", "add_double", "add_string", "add_bool",
             "add_int_vector", "add_double_vector" }

\* names and barrier identifiers with a quote, a backslash, a control character
HardNames == { <<"x">>, <<"\"">>, <<"LF", "\\">> }

HardIds == { <<"b">>, <<"\"">>, <<"\\">>, <<"LF">> }

\* the arguments given to each setter (doubles in tenths)
Arguments(op) ==
    CASE op = "add_int" -> { -3, 12 }
      [] op = "add_double" -> { 25, -5 }
      [] op = "add_string" -> { <<"a", "\"">>, <<"\\", "NUL">> }
      [] op = "add_bool" -> BOOLEAN
      [] op = "add_int_vector" -> { <<>>, <<1, 2>> }
      [] op = "add_double_vector" -> { <<25, 30>> }

RegistryInit == ClientInit /\ sigpipe = "SIG_DFL" /\ BenchIdle /\ OneCaller

\* a call of a setter on a client: variables_[name] = the entry built
Add(c, op, name, value) ==
    /\ emitted[c] = <<>>
    /\ Len(added[c]) < MaxAdds
    /\ registry' = [registry EXCEPT ![c] = Put(@, name, Built(op, value))]
    /\ added' = [added EXCEPT ![c] = Append(@, [op |-> op, name |-> name, value |-> value])]
    /\ UNCHANGED << client, str, escaped, emitted, callers >>

\* a call make_barrier_json(barrier_id) on a client
Encode(c, barrier_id) ==
    /\ emitted[c] = <<>>
    /\ emitted' = [emitted EXCEPT ![c] =
                     << [id |-> barrier_id, json |-> make_barrier_json(registry[c], barrier_id)] >>]
    /\ UNCHANGED << client, str, escaped, registry, added, callers >>

RegistryNext ==
    \/ \E op \in Setters, name \in HardNames :
          \E value \in Arguments(op) : Add("first", op, name, value)
    \/ \E id \in HardIds : Encode("first", id)

RegistrySpec == RegistryInit /\ [][RegistryNext]_vars

\* the names a client has registered
Registered(c) == { added[c][i].name : i \in DOMAIN added[c] }

\* the last add_* call a client made for a name
LastCall(c, name) ==
    LET last == CHOOSE i \in DOMAIN added[c] :
                   added[c][i].name = name
                   /\ \A j \in DOMAIN added[c] : added[c][j].name = name => j <= i
    IN added[c][last]

\* the JSON value that stands for the argument of a setter: a number for an int
\* and a double, a string, a boolean, an array of numbers for a vector
Expected(op, value) ==
    CASE op = "add_int" -> <<"number", 10 * value, <<>> >>
      [] op = "add_double" -> <<"number", value, <<>> >>
      [] op = "add_string" -> <<"string", value>>
      [] op = "add_bool" -> <<"bool", value>>
      [] op = "add_int_vector" ->
           <<"array", [i \in 1..Len(value) |-> <<"number", 10 * value[i], <<>> >>]>>
      [] op = "add_double_vector" ->
           <<"array", [i \in 1..Len(value) |-> <<"number", value[i], <<>> >>]>>

\* the request a client emitted is a JSON object that decodes to its barrier
\* identifier and to the name -> value pairs it registered
DecodesToWhatWasRegistered(c) ==
    LET e == emitted[c][1]
        d == JsonDecode(e.json)
    IN /\ d.ok
       /\ d.val[1] = "object"
       /\ KeysOf(d.val) = { <<"b","a","r","r","i","e","r","_","i","d">>,
                            <<"v","a","r","i","a","b","l","e","s">> }
       /\ Member(d.val, <<"b","a","r","r","i","e","r","_","i","d">>) = <<"string", e.id>>
       /\ LET vs == Member(d.val, <<"v","a","r","i","a","b","l","e","s">>)
          IN /\ vs[1] = "object"
             /\ KeysOf(vs) = Registered(c)
             /\ \A name \in Registered(c) :
                   Member(vs, name)
                   = Expected(LastCall(c, name).op, LastCall(c, name).value)

\* C12: for every barrier identifier and every registered variables, over an
\* alphabet with the quote, the backslash and control characters, the request
\* that make_barrier_json produces is a well-formed JSON object that the
\* reference decoder maps back to the barrier identifier and the name -> value
\* pairs, each value of the JSON kind of its setter.
C12_RequestDecodesToWhatWasRegistered ==
    \A c \in Clients : emitted[c] # <<>> => DecodesToWhatWasRegistered(c)

\* the same, for the barrier identifiers that need no escaping
RequestsWithPlainIdsDecode ==
    \A c \in Clients :
       (emitted[c] # <<>> /\ emitted[c][1].id = <<"b">>) => DecodesToWhatWasRegistered(c)

\* C14: registering a name that is in the registry overwrites its entry, also
\* with a setter of another type: the registry holds one entry per name
\* registered, with the type and the value of the last call for that name, and
\* a call leaves the entries of all other names as they were.
C14_LastRegistrationWins ==
    /\ [](\A c \in Clients :
            /\ DOMAIN registry[c] = Registered(c)
            /\ \A name \in Registered(c) :
                  registry[c][name]
                  = Built(LastCall(c, name).op, LastCall(c, name).value))
    /\ [][\A c \in Clients :
            added'[c] # added[c] =>
              LET name == added'[c][Len(added'[c])].name
              IN /\ DOMAIN registry'[c] = DOMAIN registry[c] \cup { name }
                 /\ \A other \in DOMAIN registry[c] \ { name } :
                       registry'[c][other] = registry[c][other]]_vars

\* C14 witness: add_int and then add_string under one name that now holds the
\* string
C14_Witness ==
    LET log == added["first"]
    IN /\ Len(log) >= 2
       /\ log[Len(log) - 1].op = "add_int" /\ log[Len(log) - 1].name = <<"x">>
       /\ log[Len(log)].op = "add_string" /\ log[Len(log)].name = <<"x">>
       /\ log[Len(log)].value = <<"a", "\"">>
       /\ registry["first"][<<"x">>] = <<"string", <<"a", "\"">> >>

\* ----------------------------------------------------- a fair coordinator

\* the coordinator answers a request it holds and writes its reply out, and a
\* recv that can return without a signal does return
FairSpec ==
    /\ Spec
    /\ WF_vars(\E reply \in ReplySet : CoordReply(reply))
    /\ WF_vars(CoordDeliver(TRUE))
    /\ WF_vars(wait_resume(FALSE))

\* a wait that is blocked in recv returns, with a fair coordinator
BlockedWaitReturns == (pc = "recv") ~> (pc = "idle")

\* a wait returns from recv only when bytes of the coordinator have arrived
\* or the coordinator has closed the connection
ReturnsOnlyOnCoordinatorAction ==
    [][(pc = "recv" /\ pc' = "idle") => (inbox # <<>> \/ peer = "closed")]_vars

\* C15: a connected wait whose send succeeded returns once the coordinator
\* sends a reply or closes the connection, the coordinator being fair, and
\* returns only then: it does not return while the coordinator has neither
\* written anything nor closed.
C15_ReturnsWhenAndOnlyWhenCoordinatorActs ==
    BlockedWaitReturns /\ ReturnsOnlyOnCoordinatorAction

\* C16: a call of an add_* setter changes the registry only: it makes no send,
\* recv or close, it does not fail, and it leaves the connected flag and the
\* socket descriptor as they were; and no step of wait, from its call to its
\* return, changes the connected flag or the socket descriptor.
C16_SettersAndWaitLeaveTheConnection ==
    [][ /\ (calls' = calls + 1 /\ call'.op \in Setters) =>
             /\ call'.out = "ok" /\ call'.io = 0 /\ life' = life
             /\ oplog' = oplog /\ close_calls' = close_calls /\ fd_state' = fd_state
             /\ pending' = pending /\ inbox' = inbox /\ peer' = peer
             /\ connected_' = connected_ /\ socket_fd_' = socket_fd_
             /\ program_id_' = program_id_
        /\ ((calls' = calls + 1 /\ call'.op = "wait") \/ (pc = "recv" /\ pc' = "idle")) =>
             /\ connected_' = connected_ /\ socket_fd_' = socket_fd_
             /\ close_calls' = close_calls /\ fd_state' = fd_state ]_vars

\* C16 witness: on a connected client a wait has sent its request, read a reply
\* and returned, and a setter was called after it
C16_Witness ==
    /\ call.op \in Setters /\ call.at = "Connected"
    /\ variables_ # EmptyRegistry
    /\ Len(oplog) = 3
    /\ oplog[2] = Logged("send", "barrier", "ok")
    /\ oplog[3] = Logged("recv", "reply", "data")
    /\ connected_ /\ socket_fd_ = NewFd /\ fd_state = "open"

\* ------------------------------------------------- two clients, one registry

\* the add_int calls the two clients make: a name, a value
TwinCalls == { << <<"b">>, 1 >>, << <<"b">>, 2 >>, << <<"a", "b">>, 1 >>,
               << <<"a">>, 1 >> }

TwinNext ==
    \/ \E c \in Clients, call_ \in TwinCalls : Add(c, "add_int", call_[1], call_[2])
    \/ \E c \in Clients, id \in BarrierIds : Encode(c, id)

TwinSpec == RegistryInit /\ [][TwinNext]_vars

\* two clients have registered the same name/value pairs, in whatever order
SamePairs(c, d) ==
    /\ Registered(c) = Registered(d)
    /\ \A name \in Registered(c) :
          /\ LastCall(c, name).op = LastCall(d, name).op
          /\ LastCall(c, name).value = LastCall(d, name).value

\* the names of the variables of a request, in the order of the text
NamesSent(json) ==
    Member(JsonDecode(json).val, <<"v","a","r","i","a","b","l","e","s">>)[2]

\* C17: the barrier request is a function of the barrier identifier and of the
\* registry contents: two clients that registered the same name/value pairs,
\* in whatever order of calls, emit byte-identical requests for one barrier
\* identifier, and a request carries the variables in ascending order of name,
\* each name registered once.
C17_RequestIndependentOfCallOrder ==
    /\ \A c \in Clients, d \in Clients :
          (emitted[c] # <<>> /\ emitted[d] # <<>> /\ emitted[c][1].id = emitted[d][1].id
             /\ SamePairs(c, d))
          => emitted[c][1].json = emitted[d][1].json
    /\ \A c \in Clients :
          emitted[c] # <<>> =>
             /\ JsonDecode(emitted[c][1].json).ok
             /\ LET sent == NamesSent(emitted[c][1].json)
                IN /\ { sent[i] : i \in DOMAIN sent } = Registered(c)
                   /\ \A i \in 1..(Len(sent) - 1) : TextLess(sent[i], sent[i + 1])

\* C17 witness: one client registered b and then ab, the other ab and then b,
\* both have emitted their request
C17_Witness ==
    /\ Len(added["first"]) = 2 /\ Len(added["second"]) = 2
    /\ added["first"][1].name = <<"b">> /\ added["first"][2].name = <<"a", "b">>
    /\ added["second"][1].name = <<"a", "b">> /\ added["second"][2].name = <<"b">>
    /\ emitted["first"] # <<>> /\ emitted["second"] # <<>>
    /\ SamePairs("first", "second")
    /\ NamesSent(emitted["first"][1].json) = << <<"a", "b">>, <<"b">> >>

\* the bytes of the first n replies of the coordinator
RECURSIVE RepliesLength(_)
RepliesLength(n) == IF n = 0 THEN 0 ELSE RepliesLength(n - 1) + Len(replies[n])

\* the bytes the client has read from the connection
BytesRead == RepliesLength(Len(replies)) - Len(coordOut) - Len(inbox)

\* C18: the coordinator answering each barrier request with one reply, in
\* order, the bytes that the wait of the k-th request takes from the connection
\* and interprets are bytes of the k-th reply: none of them is left over from
\* an earlier reply.
C18_WaitReadsTheReplyToItsOwnRequest ==
    [][ (pc = "recv" /\ pc' = "idle" /\ inbox # <<>> /\ peer = "open") =>
          LET k == Cardinality(LogHits("send", "barrier", "ok"))
              taken == Len(inbox) - Len(inbox')
          IN /\ k <= Len(replies)
             /\ RepliesLength(k - 1) <= BytesRead
             /\ BytesRead + taken <= RepliesLength(k) ]_vars

\* ------------------------------------------------- two callers, one client

\* the values the second caller registers
RacingInputs == { 7 }

\* the callers of the client use one lock around every call, or none
ConcurrentInit == ClientInit /\ BenchIdle /\ lock \in BOOLEAN /\ racing = EmptyRegistry

\* Barrier::add_int called by a second caller while the first is inside wait,
\* after make_barrier_json and before variables_.clear(): the first caller is in
\* send or recv and does not touch the map while this call runs
add_int_inside_wait(name, value) ==
    /\ ~lock
    /\ life = "constructed" /\ pc = "recv" /\ calls < MaxCalls
    /\ calls' = calls + 1
    /\ variables_' = Put(variables_, name, Built("add_int", value))
    /\ racing' = Put(racing, name,
                     [value |-> value,
                      during |-> Cardinality(LogSet("send", "barrier"))])
    /\ UNCHANGED << bench, lock >>
    /\ UNCHANGED << life, sigpipe, program_id_, socket_fd_, connected_, pc, fd_state,
                    close_calls, peer, pending, coordOut, inbox, replies, oplog,
                    request, sinceWait, call, states, ctor, teardowns >>

\* the same call overlapping the first caller's own access to the map is a data
\* race on variables_: the map can be corrupted and the process aborted
add_int_tears_the_map ==
    /\ ~lock
    /\ life = "constructed" /\ pc = "recv" /\ calls < MaxCalls
    /\ life' = "terminated"
    /\ UNCHANGED << bench, callers >>
    /\ UNCHANGED << sigpipe, program_id_, socket_fd_, connected_, variables_, pc,
                    fd_state, close_calls, peer, pending, coordOut, inbox, replies,
                    oplog, request, sinceWait, call, states, ctor, calls, teardowns >>

ConcurrentNext ==
    \/ \E id \in ProgramIds : Construct(id, TRUE, NewFd, 0, "ok")
    \/ \E name \in Names, value \in IntInputs : add_int(name, value)
    \/ \E id \in BarrierIds, sendRes \in { "ok", "err" } : wait(id, sendRes)
    \/ \E interrupted \in BOOLEAN : wait_resume(interrupted)
    \/ \E reply \in ReplySet : CoordReply(reply)
    \/ \E whole \in BOOLEAN : CoordDeliver(whole)
    \/ CoordClose
    \/ \E name \in Names, value \in RacingInputs : add_int_inside_wait(name, value)
    \/ add_int_tears_the_map

ConcurrentSpec == ConcurrentInit /\ [][ConcurrentNext]_vars

\* the request carries this value for this name
Carries(json, name, value) ==
    LET sent == Member(JsonDecode(json).val, <<"v","a","r","i","a","b","l","e","s">>)
    IN name \in KeysOf(sent) /\ Member(sent, name) = Expected("add_int", value)

\* a wait returns from a recv that gave it data: the return that clears
Clearing == pc = "recv" /\ pc' = "idle" /\ inbox # <<>>

\* a second caller's add_* runs inside the wait of the first
AddInsideWait == pc = "recv" /\ calls' = calls + 1

\* C19: without a lock, an add_* call of a second caller that runs between a
\* wait's encoding of its request and that wait's clearing of the registry
\* sends nothing and leaves the request as it was, the entry it writes is not
\* in that request, and the clearing removes it from the registry; with one
\* lock around every call no add_* runs inside a wait, and what a wait clears
\* is what its request carried.
C19_AddInsideWaitIsDiscarded ==
    /\ [][AddInsideWait =>
            /\ request' = request /\ oplog' = oplog /\ pending' = pending
            /\ pc' = "recv"
            /\ \A name \in DOMAIN variables_' :
                  (name \notin DOMAIN variables_ \/ variables_'[name] # variables_[name])
                  => ~Carries(request.json, name, racing'[name].value)]_vars
    /\ [][Clearing => variables_' = EmptyRegistry]_vars
    /\ [](lock => racing = EmptyRegistry)
    /\ [][(lock /\ Clearing) =>
            request.json = make_barrier_json(variables_, request.id)]_vars

\* C19 witness: without a lock, a wait has returned true and cleared the
\* registry, and the entry that a second caller added during that wait, the
\* first barrier request of the client, is gone
C19_Witness ==
    /\ ~lock
    /\ WaitReturned /\ call.out = "true"
    /\ variables_ = EmptyRegistry
    /\ \E name \in DOMAIN racing : racing[name].during = 1
    /\ Cardinality(LogSet("send", "barrier")) = 1

\* C19 witness of the serialised half: with the lock, a wait has returned true
\* and cleared a variable that its request carried
C19_SerialisedWitness ==
    /\ lock
    /\ WaitReturned /\ call.out = "true" /\ calls = 2
    /\ variables_ = EmptyRegistry /\ sinceWait = EmptyRegistry
    /\ oplog[Len(oplog)] = Logged("recv", "reply", "data")

====
